---------------------------- MODULE Spec2Model ----------------------------
(***************************************************************************)
(* Model of the paper-form converter: the /image and /link endpoints of    *)
(* app.py, screenshot_url of lib/screenshot.py, the two-stage pipeline of  *)
(* lib/paper_form.py (analyze_form, build_json_form, convert_form), its    *)
(* gateway call_claude and the response sanitizers clean_json_response /   *)
(* clean_html_response, and the /chat endpoint of flask_bedrock_agent.py   *)
(* with call_agent_with_timeout.                                           *)
(*                                                                         *)
(* Text is a sequence of tokens.  A token stands for a run of characters   *)
(* that the code never splits: "FENCE" is the fence marker, three          *)
(* backquote characters (a TLA+ string cannot hold a backquote),           *)
(* "json" and "html" are the four-character language tags, "\n" is one     *)
(* whitespace character, and every other token is an opaque run that holds *)
(* no fence marker, no whitespace and does not begin with a language tag.  *)
(***************************************************************************)
EXTENDS Integers, Sequences, FiniteSets, TLC

(***************************************************************************)
(* Bounds of the model.                                                    *)
(***************************************************************************)
\* Number of requests received in one run.
MaxRequests == 2

\* Longest raw text (in tokens) handed to the sanitizers on their own.
MaxLen == 6

\* The server threads.  Flask's development server (app.run) handles every
\* request in a thread of its own; a worker is the thread of the request it
\* is serving or has served last, so any two requests may overlap.
Workers == {"w1", "w2"}

(***************************************************************************)
(* Strings: str.strip, str.startswith, str.endswith and slicing.           *)
(***************************************************************************)
Fence == "FENCE"

Whitespace == {"\n"}

RECURSIVE lstrip(_)
lstrip(text) ==
    IF text # <<>> /\ Head(text) \in Whitespace THEN lstrip(Tail(text)) ELSE text

RECURSIVE rstrip(_)
rstrip(text) ==
    IF text # <<>> /\ text[Len(text)] \in Whitespace
    THEN rstrip(SubSeq(text, 1, Len(text) - 1))
    ELSE text

strip(text) == rstrip(lstrip(text))

startswith(text, prefix) ==
    /\ Len(text) >= Len(prefix)
    /\ SubSeq(text, 1, Len(prefix)) = prefix

endswith(text, suffix) ==
    /\ Len(text) >= Len(suffix)
    /\ SubSeq(text, Len(text) - Len(suffix) + 1, Len(text)) = suffix

\* text[n:] where the first n characters are exactly the tokens of prefix.
DropPrefix(text, prefix) == SubSeq(text, Len(prefix) + 1, Len(text))

\* text[:-n] where the last n characters are exactly the tokens of suffix.
DropSuffix(text, suffix) == SubSeq(text, 1, Len(text) - Len(suffix))

(***************************************************************************)
(* The response sanitizers.                                                *)
(***************************************************************************)
clean_json_response(text) ==
    LET t1 == strip(text)
        t2 == IF startswith(t1, <<Fence, "json">>)
              THEN DropPrefix(t1, <<Fence, "json">>)
              ELSE IF startswith(t1, <<Fence>>)
                   THEN DropPrefix(t1, <<Fence>>)
                   ELSE t1
        t3 == IF endswith(t2, <<Fence>>) THEN DropSuffix(t2, <<Fence>>) ELSE t2
    IN  strip(t3)

clean_html_response(text) ==
    LET t1 == strip(text)
        t2 == IF startswith(t1, <<Fence, "html">>)
              THEN DropPrefix(t1, <<Fence, "html">>)
              ELSE IF startswith(t1, <<Fence>>)
                   THEN DropPrefix(t1, <<Fence>>)
                   ELSE t1
        t3 == IF endswith(t2, <<Fence>>) THEN DropSuffix(t2, <<Fence>>) ELSE t2
    IN  strip(t3)


(***************************************************************************)
(* File names and paths.  A name is its stem and its suffix, the record    *)
(* that pathlib's Path(name).suffix takes apart; a path adds the directory *)
(* and name prefix the handler puts before the uploaded name.              *)
(***************************************************************************)
EmptyName == [stem |-> "", suffix |-> ""]

\* The file names a client uploads.
Filenames ==
    { EmptyName,
      [stem |-> "form", suffix |-> ".png"],
      [stem |-> "scan", suffix |-> ".PDF"],
      [stem |-> "run",  suffix |-> ".exe"],
      [stem |-> "notes", suffix |-> ""] }

\* str.lower on a suffix.
lower(suffix) ==
    CASE suffix = ".PNG" -> ".png"
      [] suffix = ".PDF" -> ".pdf"
      [] suffix = ".EXE" -> ".exe"
      [] OTHER -> suffix

\* temp_dir / f"upload_{file.filename}"
temp_path(filename) ==
    [prefix |-> "./temp/upload_", stem |-> filename.stem, suffix |-> filename.suffix]

\* The paths a caller of convert_form passes on its own (no upload).
DirectPaths ==
    { [prefix |-> "", stem |-> "form",    suffix |-> ".bmp"],
      [prefix |-> "", stem |-> "missing", suffix |-> ".png"] }

NoPath == [prefix |-> "", stem |-> "", suffix |-> ""]

\* The files on disk before any request: a caller's own form.bmp.
InitialDisk == [p \in {[prefix |-> "", stem |-> "form", suffix |-> ".bmp"]} |-> 0]

\* allowed_extensions as a faulty variant would have it: executables pass.
allowed_extensions_with_exe == {".png", ".jpg", ".jpeg", ".gif", ".webp", ".pdf", ".exe"}

allowed_extensions == {".png", ".jpg", ".jpeg", ".gif", ".webp", ".pdf"}

\* media_type_map.get(extension, 'image/jpeg'), after the '.pdf' branch.
media_type(extension) ==
    IF extension = ".pdf" THEN "application/pdf"
    ELSE CASE extension = ".jpg"  -> "image/jpeg"
           [] extension = ".jpeg" -> "image/jpeg"
           [] extension = ".png"  -> "image/png"
           [] extension = ".gif"  -> "image/gif"
           [] extension = ".webp" -> "image/webp"
           [] OTHER -> "image/jpeg"

(***************************************************************************)
(* Prompts and the remote model's answers.                                 *)
(***************************************************************************)
ANALYZER_PROMPT == <<"ANALYZER_PROMPT">>

BUILDER_PROMPT == <<"BUILDER_PROMPT">>

\* f"{BUILDER_PROMPT}\n\nHere are the field specifications:\n\n{field_specs_json}"
builder_prompt(field_specs_json) ==
    BUILDER_PROMPT \o <<"\n", "\n", "Here are the field specifications:", "\n", "\n">>
        \o field_specs_json

\* JSON documents the remote model may write, each one opaque token.
FieldsDoc == "{\"fields\":[{\"label\":\"Name\",\"suggested_label\":\"Full Name\",\"type\":\"text\"}]}"

ArrayDoc == "[{\"title\":\"Full Name\",\"type\":\"textShort\"}]"

Prose == "Here is the form you asked for"

\* What bedrock.invoke_model may answer: the remote model is free to answer
\* either stage with any of these.
ModelResponses ==
    { <<FieldsDoc>>,
      <<ArrayDoc>>,
      <<Fence, "json", "\n", ArrayDoc, "\n", Fence>>,
      <<Prose>> }


(***************************************************************************)
(* State.                                                                  *)
(***************************************************************************)
VARIABLES
    disk,         \* the file system: existing path -> whose bytes it holds
    received,     \* number of requests received so far
    req,          \* per worker: the number of its request (0: none yet)
    pc,           \* per worker: where its thread stands
    kind,         \* per worker: "image" (POST /image), "link" (POST /link)
                  \* or "direct" (a caller of convert_form)
    file,         \* per worker: request.files['file'] (present, filename)
    image_path,   \* per worker: the path handed to convert_form
    calls,        \* per worker: the bedrock.invoke_model invocations, in order
    gateway,      \* per worker: how many times call_claude was entered
    field_specs,  \* per worker: analyze_form's return value
    form_output,  \* per worker: convert_form's return value
    outcome,      \* per worker: convert_form "returned" or "raised"
    status,       \* per worker: the HTTP status answered (0: none yet)
    success,      \* per worker: the 'success' member of the JSON answered
    body,         \* per worker: request.get_json() of a POST /link
    chat_pc,      \* POST /chat: where the handler's thread stands
    chat_count,   \* POST /chat: number of requests received so far
    chat_data,    \* POST /chat: request.get_json()
    user_input,   \* POST /chat: the text handed to the agent
    agent,        \* POST /chat: the executor's agent call
    agent_calls,  \* POST /chat: times the agent was called for the request
    result,       \* POST /chat: what call_agent_with_timeout returns
    chat_status,  \* POST /chat: the HTTP status answered (0: none yet)
    sanRaw,       \* sanitizer on its own: the raw text
    sanText,      \* sanitizer on its own: the text after the applications so far
    sanPrev,      \* sanitizer on its own: the text before the last application
    sanFn,        \* sanitizer on its own: which cleaner is applied
    sanCount      \* sanitizer on its own: number of applications

reqVars == <<received, req, pc, kind, file, image_path, calls, gateway, field_specs,
             form_output, outcome, status, success, body>>

sanVars == <<sanRaw, sanText, sanPrev, sanFn, sanCount>>

chatVars == <<chat_pc, chat_count, chat_data, user_input, agent, agent_calls, result,
              chat_status>>

vars == <<disk, reqVars, sanVars, chatVars>>

NoFileField == [present |-> FALSE, filename |-> EmptyName]

exists(path) == path \in DOMAIN disk

\* file.save: create or overwrite.
write(path, bytes) ==
    [q \in DOMAIN disk \cup {path} |-> IF q = path THEN bytes ELSE disk[q]]

unlink(path) == [q \in DOMAIN disk \ {path} |-> disk[q]]

\* request.get_json() of a POST /link: nothing or an empty object (given is
\* FALSE), or an object, with or without a 'url' member.
NoBody == [given |-> FALSE, has_url |-> FALSE, url |-> ""]

LinkBodies ==
    { NoBody,
      [given |-> TRUE, has_url |-> FALSE, url |-> ""],
      [given |-> TRUE, has_url |-> TRUE,  url |-> ""],
      [given |-> TRUE, has_url |-> TRUE,  url |-> "https://example.com/form"] }

\* tempfile.NamedTemporaryFile(suffix='.png', delete=False, dir='./temp'): a
\* name no existing file has; here the name carries the request's number.
screenshot_path(n) == [prefix |-> "./temp/tmp", stem |-> ToString(n), suffix |-> ".png"]

\* request.get_json() of a POST /chat: null, an object or an array, empty or
\* not; a member that is absent and a member that is "" are both written "".
NoChatBody ==
    [json |-> "null", empty |-> TRUE, message |-> "", prompt |-> "", query |-> ""]

ChatBodies ==
    { NoChatBody,
      [json |-> "object", empty |-> TRUE, message |-> "", prompt |-> "", query |-> ""],
      [json |-> "array", empty |-> TRUE, message |-> "", prompt |-> "", query |-> ""],
      [json |-> "array", empty |-> FALSE, message |-> "", prompt |-> "", query |-> ""] }
    \cup [json : {"object"}, empty : {FALSE}, message : {"", "hello"},
          prompt : {"", "draw a form"}, query : {"", "what time is it"}]

NoResult == [success |-> "none", error |-> ""]

ChatIdle ==
    /\ chat_pc = "idle"
    /\ chat_count = 0
    /\ chat_data = NoChatBody
    /\ user_input = ""
    /\ agent = "idle"
    /\ agent_calls = 0
    /\ result = NoResult
    /\ chat_status = 0

SanIdle ==
    /\ sanRaw = <<>>
    /\ sanText = <<>>
    /\ sanPrev = <<>>
    /\ sanFn = "none"
    /\ sanCount = 0

ReqInit ==
    /\ disk = InitialDisk
    /\ received = 0
    /\ req = [w \in Workers |-> 0]
    /\ pc = [w \in Workers |-> "idle"]
    /\ kind = [w \in Workers |-> "none"]
    /\ file = [w \in Workers |-> NoFileField]
    /\ image_path = [w \in Workers |-> NoPath]
    /\ calls = [w \in Workers |-> <<>>]
    /\ gateway = [w \in Workers |-> 0]
    /\ field_specs = [w \in Workers |-> <<>>]
    /\ form_output = [w \in Workers |-> <<>>]
    /\ outcome = [w \in Workers |-> "none"]
    /\ status = [w \in Workers |-> 0]
    /\ success = [w \in Workers |-> "none"]
    /\ body = [w \in Workers |-> NoBody]

Init == ReqInit /\ SanIdle /\ ChatIdle

(***************************************************************************)
(* A request arrives: a thread starts on it with fresh locals.             *)
(***************************************************************************)
Accept(w, k, f) ==
    /\ pc[w] \in {"idle", "done"}
    /\ received < MaxRequests
    /\ received' = received + 1
    /\ req' = [req EXCEPT ![w] = received + 1]
    /\ kind' = [kind EXCEPT ![w] = k]
    /\ file' = [file EXCEPT ![w] = f]
    /\ calls' = [calls EXCEPT ![w] = <<>>]
    /\ gateway' = [gateway EXCEPT ![w] = 0]
    /\ field_specs' = [field_specs EXCEPT ![w] = <<>>]
    /\ form_output' = [form_output EXCEPT ![w] = <<>>]
    /\ outcome' = [outcome EXCEPT ![w] = "none"]

(***************************************************************************)
(* POST /image: validation and the temporary copy of the upload.           *)
(***************************************************************************)
\* return jsonify({'success': False, 'error': ...}), code
Reject(w, code) ==
    /\ status' = [status EXCEPT ![w] = code]
    /\ success' = [success EXCEPT ![w] = "false"]
    /\ pc' = [pc EXCEPT ![w] = "done"]

\* The upload of request number n holds bytes n.
from_image(w, f) ==
    /\ Accept(w, "image", f)
    /\ IF ~f.present \/ f.filename = EmptyName
          \/ lower(f.filename.suffix) \notin allowed_extensions
       THEN /\ Reject(w, 400)
            /\ image_path' = [image_path EXCEPT ![w] = NoPath]
            /\ UNCHANGED disk
       ELSE /\ disk' = write(temp_path(f.filename), received + 1)
            /\ image_path' = [image_path EXCEPT ![w] = temp_path(f.filename)]
            /\ pc' = [pc EXCEPT ![w] = "convert"]
            /\ status' = [status EXCEPT ![w] = 0]
            /\ success' = [success EXCEPT ![w] = "none"]
    /\ body' = [body EXCEPT ![w] = NoBody]
    /\ UNCHANGED <<sanVars, chatVars>>

\* A caller of the library function convert_form(image_path), output_path
\* left at its default None as in app.py.
convert_direct(w, path) ==
    /\ Accept(w, "direct", NoFileField)
    /\ image_path' = [image_path EXCEPT ![w] = path]
    /\ pc' = [pc EXCEPT ![w] = "convert"]
    /\ status' = [status EXCEPT ![w] = 0]
    /\ success' = [success EXCEPT ![w] = "none"]
    /\ body' = [body EXCEPT ![w] = NoBody]
    /\ UNCHANGED <<disk, sanVars, chatVars>>

(***************************************************************************)
(* POST /link: validation and screenshot_url.                              *)
(***************************************************************************)
\* Up to the point where screenshot_url has created and closed its empty
\* temporary file (-1: no bytes yet) and the browser is at work.
from_url(w, data) ==
    /\ Accept(w, "link", NoFileField)
    /\ body' = [body EXCEPT ![w] = data]
    /\ image_path' = [image_path EXCEPT ![w] = NoPath]
    /\ IF ~data.given \/ ~data.has_url \/ data.url = ""
       THEN /\ Reject(w, 400)
            /\ UNCHANGED disk
       ELSE /\ disk' = write(screenshot_path(received + 1), -1)
            /\ pc' = [pc EXCEPT ![w] = "screenshot"]
            /\ status' = [status EXCEPT ![w] = 0]
            /\ success' = [success EXCEPT ![w] = "none"]
    /\ UNCHANGED <<sanVars, chatVars>>

\* page.screenshot(path=output_path) writes the image, screenshot_url returns
\* the path and from_url enters its try block.
screenshot_url(w) ==
    /\ pc[w] = "screenshot"
    /\ disk' = write(screenshot_path(req[w]), req[w])
    /\ image_path' = [image_path EXCEPT ![w] = screenshot_path(req[w])]
    /\ pc' = [pc EXCEPT ![w] = "convert"]
    /\ UNCHANGED <<received, req, kind, file, body, calls, gateway, field_specs,
                   form_output, outcome, status, success, sanVars, chatVars>>

\* The browser raises (launch, goto, wait_for_load_state, screenshot): the
\* exception leaves screenshot_url before from_url's try block is entered,
\* and from_url's outer except answers it.
screenshot_raises(w) ==
    /\ pc[w] = "screenshot"
    /\ Reject(w, 500)
    /\ UNCHANGED <<disk, received, req, kind, file, body, image_path, calls, gateway,
                   field_specs, form_output, outcome, sanVars, chatVars>>

(***************************************************************************)
(* convert_form: the two stages and the gateway.                           *)
(***************************************************************************)
\* An exception leaves convert_form: from_image and from_url run their
\* finally clause, a direct caller sees the exception.
Raise(w) ==
    /\ outcome' = [outcome EXCEPT ![w] = "raised"]
    /\ pc' = [pc EXCEPT ![w] = IF kind[w] \in {"image", "link"} THEN "cleanup" ELSE "done"]

\* The request body call_claude builds and hands to bedrock.invoke_model.
Invocation(stage, media, data, text) ==
    [stage |-> stage, media |-> media, data |-> data, text |-> text,
     state |-> "inflight", response |-> <<>>]

\* analyze_form -> call_claude(ANALYZER_PROMPT, file_path=image_path), up to
\* the point where invoke_model is waiting for the remote model.
analyze_form(w) ==
    /\ pc[w] = "convert"
    /\ gateway' = [gateway EXCEPT ![w] = @ + 1]
    /\ IF exists(image_path[w])
       THEN /\ calls' = [calls EXCEPT ![w] = Append(@,
                           Invocation("extract",
                                      media_type(lower(image_path[w].suffix)),
                                      disk[image_path[w]],
                                      ANALYZER_PROMPT))]
            /\ pc' = [pc EXCEPT ![w] = "extract_wait"]
            /\ UNCHANGED outcome
       ELSE /\ Raise(w)
            /\ UNCHANGED calls
    /\ UNCHANGED <<disk, received, req, kind, file, body, image_path, field_specs, form_output, status, success,
                   sanVars, chatVars>>

Returned(call, response) == [call EXCEPT !.state = "returned", !.response = response]

\* build_json_form as a faulty variant would have it: the prompt embeds the
\* model's raw answer instead of the cleaned one.
build_json_form_raw(w, response) ==
    /\ pc[w] = "extract_wait"
    /\ field_specs' = [field_specs EXCEPT ![w] = clean_json_response(response)]
    /\ gateway' = [gateway EXCEPT ![w] = @ + 1]
    /\ calls' = [calls EXCEPT ![w] =
                    Append([@ EXCEPT ![1] = Returned(@, response)],
                           Invocation("build", "none", -1, builder_prompt(response)))]
    /\ pc' = [pc EXCEPT ![w] = "build_wait"]
    /\ UNCHANGED <<disk, received, req, kind, file, body, image_path, form_output,
                   outcome, status, success, sanVars, chatVars>>

\* invoke_model answers stage 1: analyze_form cleans and returns the text,
\* build_json_form builds its prompt and enters call_claude(prompt).
build_json_form(w, response) ==
    /\ pc[w] = "extract_wait"
    /\ field_specs' = [field_specs EXCEPT ![w] = clean_json_response(response)]
    /\ gateway' = [gateway EXCEPT ![w] = @ + 1]
    /\ calls' = [calls EXCEPT ![w] =
                    Append([@ EXCEPT ![1] = Returned(@, response)],
                           Invocation("build", "none", -1,
                                      builder_prompt(clean_json_response(response))))]
    /\ pc' = [pc EXCEPT ![w] = "build_wait"]
    /\ UNCHANGED <<disk, received, req, kind, file, body, image_path, form_output, outcome, status, success, sanVars, chatVars>>

\* invoke_model answers stage 2: build_json_form cleans and returns the text
\* and convert_form returns it.
convert_form_returns(w, response) ==
    /\ pc[w] = "build_wait"
    /\ calls' = [calls EXCEPT ![w][2] = Returned(@, response)]
    /\ form_output' = [form_output EXCEPT ![w] = clean_html_response(response)]
    /\ outcome' = [outcome EXCEPT ![w] = "returned"]
    /\ pc' = [pc EXCEPT ![w] = IF kind[w] \in {"image", "link"} THEN "cleanup" ELSE "done"]
    /\ UNCHANGED <<disk, received, req, kind, file, body, image_path, gateway, field_specs, status, success, sanVars, chatVars>>

\* invoke_raises as a faulty variant would have it: a failed extraction call
\* is swallowed and the builder stage is entered with empty field
\* specifications.
invoke_raises_then_builds(w) ==
    /\ pc[w] \in {"extract_wait", "build_wait"}
    /\ IF pc[w] = "extract_wait"
       THEN /\ calls' = [calls EXCEPT ![w] =
                           Append([@ EXCEPT ![1].state = "raised"],
                                  Invocation("build", "none", -1, builder_prompt(<<>>)))]
            /\ gateway' = [gateway EXCEPT ![w] = @ + 1]
            /\ pc' = [pc EXCEPT ![w] = "build_wait"]
            /\ UNCHANGED outcome
       ELSE /\ calls' = [calls EXCEPT ![w][Len(calls[w])].state = "raised"]
            /\ Raise(w)
            /\ UNCHANGED gateway
    /\ UNCHANGED <<disk, received, req, kind, file, body, image_path, field_specs,
                   form_output, status, success, sanVars, chatVars>>

\* invoke_raises as a faulty variant would have it: call_claude invokes the
\* model a second time when the first invocation raises.
invoke_raises_then_retries(w) ==
    /\ pc[w] \in {"extract_wait", "build_wait"}
    /\ IF Len(calls[w]) = gateway[w]
       THEN /\ calls' = [calls EXCEPT ![w] =
                           Append([@ EXCEPT ![Len(@)].state = "raised"],
                                  [@[Len(@)] EXCEPT !.state = "inflight"])]
            /\ UNCHANGED <<pc, outcome>>
       ELSE /\ calls' = [calls EXCEPT ![w][Len(calls[w])].state = "raised"]
            /\ Raise(w)
    /\ UNCHANGED <<disk, received, req, kind, file, body, image_path, gateway, field_specs,
                   form_output, status, success, sanVars, chatVars>>

\* invoke_model raises, or the response envelope has no content[0].text: the
\* exception leaves call_claude and convert_form.
invoke_raises(w) ==
    /\ pc[w] \in {"extract_wait", "build_wait"}
    /\ calls' = [calls EXCEPT ![w][Len(calls[w])].state = "raised"]
    /\ Raise(w)
    /\ UNCHANGED <<disk, received, req, kind, file, body, image_path, gateway, field_specs, form_output,
                   status, success, sanVars, chatVars>>

(***************************************************************************)
(* POST /image and POST /link: the finally clause and the response.        *)
(***************************************************************************)
\* The response once the finally clause is through: the try block's return
\* value, or the outer except's 500.
Respond(w) ==
    /\ status' = [status EXCEPT ![w] = IF outcome[w] = "returned" THEN 200 ELSE 500]
    /\ success' = [success EXCEPT ![w] = IF outcome[w] = "returned" THEN "true" ELSE "false"]
    /\ pc' = [pc EXCEPT ![w] = "done"]

\* finally: if temp_path.exists():
finally_exists(w) ==
    /\ pc[w] = "cleanup"
    /\ IF exists(image_path[w])
       THEN /\ pc' = [pc EXCEPT ![w] = "unlink"]
            /\ UNCHANGED <<status, success>>
       ELSE Respond(w)
    /\ UNCHANGED <<disk, received, req, kind, file, body, image_path, calls, gateway, field_specs,
                   form_output, outcome, sanVars, chatVars>>

\* temp_path.unlink(): FileNotFoundError replaces the pending return value
\* and is answered by the outer except.
finally_unlink(w) ==
    /\ pc[w] = "unlink"
    /\ IF exists(image_path[w])
       THEN /\ disk' = unlink(image_path[w])
            /\ Respond(w)
       ELSE /\ Reject(w, 500)
            /\ UNCHANGED disk
    /\ UNCHANGED <<received, req, kind, file, body, image_path, calls, gateway, field_specs, form_output,
                   outcome, sanVars, chatVars>>

Uploads ==
    {NoFileField} \cup [present : {TRUE}, filename : Filenames]

Next ==
    \/ \E w \in Workers, f \in Uploads : from_image(w, f)
    \/ \E w \in Workers, data \in LinkBodies : from_url(w, data)
    \/ \E w \in Workers : screenshot_url(w)
    \/ \E w \in Workers : screenshot_raises(w)
    \/ \E w \in Workers, path \in DirectPaths : convert_direct(w, path)
    \/ \E w \in Workers : analyze_form(w)
    \/ \E w \in Workers, response \in ModelResponses : build_json_form(w, response)
    \/ \E w \in Workers, response \in ModelResponses : convert_form_returns(w, response)
    \/ \E w \in Workers : invoke_raises(w)
    \/ \E w \in Workers : finally_exists(w)
    \/ \E w \in Workers : finally_unlink(w)

Spec == Init /\ [][Next]_vars

(***************************************************************************)
(* With the scheduling the code has: a thread that can take its next step  *)
(* takes it.  Nothing obliges the remote model to answer or to fail, and   *)
(* nothing obliges a client to send a request.                             *)
(***************************************************************************)
FairSpec ==
    /\ Spec
    /\ \A w \in Workers :
          /\ WF_vars(analyze_form(w))
          /\ WF_vars(finally_exists(w))
          /\ WF_vars(finally_unlink(w))

(***************************************************************************)
(* The sanitizers on their own: every raw text of at most MaxLen tokens,   *)
(* cleaned once and then cleaned again by the same function.               *)
(***************************************************************************)
Payload == "{\"a\":1}"

SanTokens == {Fence, "json", "html", "\n", Payload}

Texts == UNION {[1..n -> SanTokens] : n \in 0..MaxLen}

SanInit ==
    /\ ReqInit
    /\ ChatIdle
    /\ sanRaw \in Texts
    /\ sanText = sanRaw
    /\ sanPrev = sanRaw
    /\ sanFn = "none"
    /\ sanCount = 0

SanApply(fn, cleaned) ==
    /\ sanCount < 2
    /\ sanFn \in {"none", fn}
    /\ sanFn' = fn
    /\ sanPrev' = sanText
    /\ sanText' = cleaned
    /\ sanCount' = sanCount + 1
    /\ UNCHANGED <<sanRaw, disk, reqVars, chatVars>>

SanCleanJson == SanApply("json", clean_json_response(sanText))

SanCleanHtml == SanApply("html", clean_html_response(sanText))

SanNext == SanCleanJson \/ SanCleanHtml

SanSpec == SanInit /\ [][SanNext]_vars

(***************************************************************************)
(* POST /chat of flask_bedrock_agent.py.  The handler's thread submits the *)
(* agent call to a one-thread executor and waits for the future; time is   *)
(* not counted: the timeout may expire at any moment the agent call is     *)
(* still running.                                                          *)
(***************************************************************************)
\* not data
falsy(data) == data.json = "null" \/ data.empty

\* data.get('message') or data.get('prompt') or data.get('query')
user_input_of(data) ==
    IF data.message # "" THEN data.message
    ELSE IF data.prompt # "" THEN data.prompt
    ELSE data.query

\* return jsonify({"success": False, "error": ...}), code
ChatAnswer(code) ==
    /\ chat_status' = code
    /\ chat_pc' = "done"

\* chat, up to its return or to future.result(timeout=timeout_seconds) in
\* call_agent_with_timeout.  data.get on a body that is no object raises
\* AttributeError, which the handler's except answers.
chat(data) ==
    /\ chat_pc \in {"idle", "done"}
    /\ chat_count < MaxRequests
    /\ chat_count' = chat_count + 1
    /\ chat_data' = data
    /\ result' = NoResult
    /\ IF falsy(data)
       THEN /\ ChatAnswer(400)
            /\ user_input' = ""
            /\ agent' = "idle"
            /\ agent_calls' = 0
       ELSE IF data.json # "object"
       THEN /\ ChatAnswer(500)
            /\ user_input' = ""
            /\ agent' = "idle"
            /\ agent_calls' = 0
       ELSE IF user_input_of(data) = ""
       THEN /\ ChatAnswer(400)
            /\ user_input' = ""
            /\ agent' = "idle"
            /\ agent_calls' = 0
       ELSE /\ user_input' = user_input_of(data)
            /\ agent' = "running"
            /\ agent_calls' = 1
            /\ chat_pc' = "waiting"
            /\ chat_status' = 0
    /\ UNCHANGED <<disk, reqVars, sanVars>>

\* What agent(user_input) gives back: a response whose message has content
\* with text, one whose content is empty, or one without a message.
AgentResponses == {"text", "empty", "plain"}

\* The executor's thread: agent(user_input) returns.
agent_returns(response) ==
    /\ agent = "running"
    /\ agent' = response
    /\ UNCHANGED <<chat_pc, chat_count, chat_data, user_input, agent_calls, result,
                   chat_status, disk, reqVars, sanVars>>

\* The executor's thread: agent(user_input) raises.
agent_raises ==
    /\ agent = "running"
    /\ agent' = "raised"
    /\ UNCHANGED <<chat_pc, chat_count, chat_data, user_input, agent_calls, result,
                   chat_status, disk, reqVars, sanVars>>

\* The dictionary call_agent_with_timeout builds from a finished agent call.
result_of(finished) ==
    CASE finished = "text"  -> [success |-> "true",  error |-> ""]
      [] finished = "plain" -> [success |-> "true",  error |-> ""]
      [] finished = "empty" -> [success |-> "false", error |-> "No content in response"]
      [] OTHER              -> [success |-> "false", error |-> "Error during agent call"]

\* if result["success"]: 200, else 500
chat_returns(res) ==
    /\ result' = res
    /\ ChatAnswer(IF res.success = "true" THEN 200 ELSE 500)

\* future.result returns or re-raises in time; the with block is left at
\* once, its thread being idle, and chat answers.
future_result ==
    /\ chat_pc = "waiting"
    /\ agent # "running"
    /\ chat_returns(result_of(agent))
    /\ UNCHANGED <<chat_count, chat_data, user_input, agent, agent_calls, disk,
                   reqVars, sanVars>>

TimedOut == [success |-> "false", error |-> "Agent call timed out"]

\* future.result raises FuturesTimeoutError: the except clause has its
\* dictionary ready and the return leaves the with block, whose __exit__ is
\* executor.shutdown(wait=True).
future_timeout ==
    /\ chat_pc = "waiting"
    /\ agent = "running"
    /\ result' = TimedOut
    /\ chat_pc' = "shutdown"
    /\ UNCHANGED <<chat_count, chat_data, user_input, agent, agent_calls, chat_status,
                   disk, reqVars, sanVars>>

\* shutdown(wait=True) joins the executor's thread: call_agent_with_timeout
\* returns once the agent call is over, and chat answers.
executor_shutdown ==
    /\ chat_pc = "shutdown"
    /\ agent # "running"
    /\ chat_returns(result)
    /\ UNCHANGED <<chat_count, chat_data, user_input, agent, agent_calls, disk,
                   reqVars, sanVars>>

ChatNext ==
    \/ \E data \in ChatBodies : chat(data)
    \/ \E response \in AgentResponses : agent_returns(response)
    \/ agent_raises
    \/ future_result
    \/ future_timeout
    \/ executor_shutdown

ChatSpec == Init /\ [][ChatNext]_vars

(***************************************************************************)
(* Response Sanitizer                                                      *)
(***************************************************************************)
\* C3: the sanitizer is idempotent: for every raw text, cleaning the cleaned
\* text again (with clean_json_response, or with clean_html_response) gives
\* the cleaned text back.
C3_Idempotent == sanCount = 2 => sanText = sanPrev

\* A payload in a fenced block: the fence marker, the declared-language tag
\* (none for an untagged marker), a newline, the payload, a newline, the
\* closing fence marker.
Fenced(tag, payload) == <<Fence>> \o tag \o <<"\n", payload, "\n", Fence>>

FenceTags == {<<"json">>, <<"html">>, <<>>}

\* C4: each stage's sanitizer (clean_json_response in the extraction stage,
\* clean_html_response in the builder stage) returns exactly the payload of
\* a fenced block, whatever the block's declared-language tag: json, html
\* or none.
C4_StripsFenceWhateverTag ==
    \A tag \in FenceTags :
        (sanCount = 1 /\ sanRaw = Fenced(tag, Payload)) => sanText = <<Payload>>

(***************************************************************************)
(* Pipeline                                                                *)
(***************************************************************************)
Invocations(w) == 1..Len(calls[w])

\* C1: the builder stage's invocation is issued only after the extraction
\* stage's invocation of the same request has returned, and an extraction
\* invocation that raised is the request's only invocation.
C1_StagesSequential ==
    \A w \in Workers :
        /\ \A i \in Invocations(w) :
              calls[w][i].stage = "build" =>
                  /\ i = 2
                  /\ calls[w][1].stage = "extract"
                  /\ calls[w][1].state = "returned"
        /\ (calls[w] # <<>> /\ calls[w][1].state = "raised") => Len(calls[w]) = 1

\* One request has its builder invocation in flight after a returned
\* extraction, another ended on an extraction invocation that raised.
C1_Witness ==
    \E w, v \in Workers :
        /\ Len(calls[w]) = 2
        /\ calls[w][1].state = "returned"
        /\ calls[w][2].stage = "build"
        /\ calls[w][2].state = "inflight"
        /\ Len(calls[v]) = 1
        /\ calls[v][1].state = "raised"
        /\ pc[v] = "done"

(***************************************************************************)
(* What the Validator of the schema accepts (paper_form.py has none): the   *)
(* JSON documents the remote model writes here, parsed.                    *)
(***************************************************************************)
MaxQuestions == 50

QuestionTypes ==
    {"header", "divider", "spacer", "section", "image", "hyperlink", "signature",
     "stopwatch", "temperature", "imageUpload", "rating", "textShort", "textLong",
     "number", "tally", "radio", "checkbox", "select", "datePicker", "timePicker"}

Palette ==
    {"blue-low", "blue-high", "pink-low", "pink-high", "purple-low", "purple-high",
     "teal-low", "teal-high", "cyan-low", "cyan-high", "deep-orange-low",
     "deep-orange-high", "grey-low", "grey-high", "success-low", "success-high",
     "warning-low", "warning-high", "danger-low", "danger-high"}

\* json.loads of a cleaned text: only a text that is one JSON document parses.
IsJson(text) == Len(text) = 1 /\ text[1] \in {FieldsDoc, ArrayDoc}

\* The parsed document: an object with its keys, or an array with its items;
\* an item is a question (color "" when settings.color is not set).
json_loads(text) ==
    IF text[1] = FieldsDoc
    THEN [isArray |-> FALSE, keys |-> {"fields"}, items |-> <<>>]
    ELSE [isArray |-> TRUE, keys |-> {},
          items |-> << [type |-> "textShort", color |-> "", questions |-> <<>>,
                        groupIds |-> {}] >>]

HasFieldsArray(text) ==
    IsJson(text) /\ ~json_loads(text).isArray /\ "fields" \in json_loads(text).keys

RECURSIVE Flatten(_)
Flatten(questions) ==
    IF questions = <<>> THEN <<>>
    ELSE <<Head(questions)>> \o Flatten(Head(questions).questions)
             \o Flatten(Tail(questions))

Validator(questions) ==
    LET flat == Flatten(questions)
        groups == UNION {flat[i].groupIds : i \in {j \in 1..Len(flat) : flat[j].type # "tally"}}
    IN  /\ Len(flat) <= MaxQuestions
        /\ \A i \in 1..Len(flat) :
              /\ flat[i].type \in QuestionTypes
              /\ flat[i].type = "section" => flat[i].questions # <<>>
              /\ flat[i].color # "" => flat[i].color \in Palette
              /\ flat[i].type = "tally" => flat[i].groupIds \subseteq groups \cup {"ALL"}

PassesValidator(text) ==
    IsJson(text) /\ json_loads(text).isArray /\ Validator(json_loads(text).items)

\* C2: the builder stage returns a result, and POST /image answers 200 with
\* success=true, only if the cleaned model output parses as a JSON array
\* that passes the Validator.
C2_OnlyValidatedSchemaReturned ==
    \A w \in Workers :
        (outcome[w] = "returned" \/ status[w] = 200) => PassesValidator(form_output[w])

\* C5: when the extraction stage's cleaned output is not valid JSON or has
\* no fields array, the request ends in an error: no builder invocation is
\* made and no result is returned.
C5_ExtractionParseError ==
    \A w \in Workers :
        (calls[w] # <<>> /\ calls[w][1].state = "returned"
            /\ ~HasFieldsArray(field_specs[w]))
        => /\ Len(calls[w]) = 1
           /\ outcome[w] # "returned"
           /\ status[w] # 200

(***************************************************************************)
(* POST /image                                                             *)
(***************************************************************************)
UploadExtensions == {".png", ".jpg", ".jpeg", ".gif", ".webp", ".pdf"}

\* C6: an upload whose file name's extension, lower-cased, is none of png,
\* jpg, jpeg, gif, webp, pdf is answered 400 at once: its bytes are in no
\* file on disk, no temp path was taken and the gateway was never entered.
C6_BadExtensionRejected ==
    \A w \in Workers :
        (kind[w] = "image" /\ file[w].present
            /\ lower(file[w].filename.suffix) \notin UploadExtensions)
        => /\ pc[w] = "done"
           /\ status[w] = 400
           /\ image_path[w] = NoPath
           /\ \A p \in DOMAIN disk : disk[p] # req[w]
           /\ gateway[w] = 0
           /\ calls[w] = <<>>

\* An upload named run.exe was answered.
C6_Witness ==
    \E w \in Workers :
        /\ kind[w] = "image"
        /\ file[w].present
        /\ file[w].filename.suffix = ".exe"
        /\ status[w] = 400

Processing == {"convert", "extract_wait", "build_wait"}

\* C7: concurrent POST /image requests share no state: the attachment a
\* request sends to the model is the bytes that request uploaded, and while
\* a request is being converted its temp file exists and holds its bytes.
C7_RequestsShareNoState ==
    \A w \in Workers :
        kind[w] = "image" =>
            /\ \A i \in Invocations(w) :
                  calls[w][i].stage = "extract" => calls[w][i].data = req[w]
            /\ pc[w] \in Processing =>
                  /\ exists(image_path[w])
                  /\ disk[image_path[w]] = req[w]

(***************************************************************************)
(* Model Gateway                                                           *)
(***************************************************************************)
\* C8: a gateway call that gets no response is abandoned when its deadline
\* expires, so a request that is waiting for the remote model always comes
\* to an end, with a result or an error.
C8_GatewayCallTerminates ==
    \A w \in Workers : (pc[w] \in {"extract_wait", "build_wait"}) ~> (pc[w] = "done")

\* A failure ends the request: the invocation that raised is the last one,
\* nothing is in flight or returned afterwards, and POST /image answers 500.
FailureIsTerminal(w) ==
    /\ \A i \in Invocations(w) : calls[w][i].state = "raised" => i = Len(calls[w])
    /\ outcome[w] = "raised" =>
          /\ calls[w] = <<>> \/ calls[w][Len(calls[w])].state = "raised"
          /\ form_output[w] = <<>>
          /\ status[w] \in {0, 500}
          /\ (kind[w] = "image" /\ pc[w] = "done") => status[w] = 500

\* One invocation per stage at most: extraction first, then building.
OnePerStage(w) ==
    /\ Len(calls[w]) <= 2
    /\ \A i \in Invocations(w) : calls[w][i].stage = (IF i = 1 THEN "extract" ELSE "build")

\* C9 as stated: every call_claude invocation issues exactly one model
\* invocation, a request issues at most two, and a failure is terminal.
C9_ExactlyOnePerGatewayCall ==
    \A w \in Workers :
        /\ Len(calls[w]) = gateway[w]
        /\ OnePerStage(w)
        /\ FailureIsTerminal(w)

\* C9 amended: every call_claude invocation issues at most one model
\* invocation: exactly one, except none when reading the attachment raises
\* before the model is invoked; a request issues at most two, one per stage,
\* and a failure is terminal.
C9_NeverRetries ==
    \A w \in Workers :
        /\ Len(calls[w]) <= gateway[w]
        /\ gateway[w] <= 2
        /\ Len(calls[w]) < gateway[w] =>
              /\ calls[w] = <<>>
              /\ gateway[w] = 1
              /\ outcome[w] = "raised"
        /\ OnePerStage(w)
        /\ FailureIsTerminal(w)

\* One request ended in an error after its extraction invocation raised,
\* another after call_claude could not read the attachment.
C9_Witness ==
    \E w, v \in Workers :
        /\ pc[w] = "done" /\ outcome[w] = "raised"
        /\ Len(calls[w]) = 1 /\ calls[w][1].state = "raised"
        /\ pc[v] = "done" /\ outcome[v] = "raised"
        /\ gateway[v] = 1 /\ calls[v] = <<>>

GatewayExtensions == {".jpg", ".jpeg", ".png", ".gif", ".webp", ".pdf"}

\* C10: the gateway never invokes the model with an attachment whose
\* extension is none of .jpg, .jpeg, .png, .gif, .webp, .pdf.
C10_UnsupportedMediaKind ==
    \A w \in Workers :
        \A i \in Invocations(w) :
            calls[w][i].stage = "extract" =>
                lower(image_path[w].suffix) \in GatewayExtensions

(***************************************************************************)
(* POST /image and POST /link: answers and temporary files                 *)
(***************************************************************************)
Http == {"image", "link"}

\* The request is one the handlers answer 400: no file or an empty file
\* name or a disallowed extension, no url or an empty url.
BadRequest(w) ==
    IF kind[w] = "image"
    THEN \/ ~file[w].present
         \/ file[w].filename = EmptyName
         \/ lower(file[w].filename.suffix) \notin UploadExtensions
    ELSE ~body[w].given \/ ~body[w].has_url \/ body[w].url = ""

\* C11: POST /image and POST /link answer 200 with success=true exactly when
\* the conversion pipeline returned without raising, 400 with success=false
\* exactly for a missing or empty file, a disallowed extension, a missing or
\* empty url, and 500 with success=false otherwise.
C11_AnswerShapes ==
    \A w \in Workers :
        (kind[w] \in Http /\ pc[w] = "done") =>
            /\ status[w] \in {200, 400, 500}
            /\ success[w] = "true" <=> status[w] = 200
            /\ success[w] = "false" <=> status[w] \in {400, 500}
            /\ status[w] = 200 <=> outcome[w] = "returned"
            /\ status[w] = 400 <=> BadRequest(w)

\* C12: the extraction invocation carries an attachment and the analyzer
\* prompt; the builder invocation carries no attachment, and its text is the
\* builder prompt followed by the extraction stage's cleaned output as it
\* is.
C12_StageRequests ==
    \A w \in Workers :
        /\ calls[w] # <<>> =>
              /\ calls[w][1].stage = "extract"
              /\ calls[w][1].media # "none"
              /\ calls[w][1].data >= 0
              /\ calls[w][1].text = ANALYZER_PROMPT
        /\ Len(calls[w]) = 2 =>
              /\ calls[w][2].stage = "build"
              /\ calls[w][2].media = "none"
              /\ calls[w][2].data = -1
              /\ field_specs[w] = clean_json_response(calls[w][1].response)
              /\ startswith(calls[w][2].text, BUILDER_PROMPT)
              /\ endswith(calls[w][2].text, field_specs[w])

\* A builder invocation whose field specifications came out of a fenced
\* answer of the extraction stage.
C12_Witness ==
    \E w \in Workers :
        /\ Len(calls[w]) = 2
        /\ calls[w][1].response = <<Fence, "json", "\n", ArrayDoc, "\n", Fence>>
        /\ field_specs[w] = <<ArrayDoc>>

\* C14: once a POST /image or POST /link request is answered, no temporary
\* file made for it is left: no file holds its upload or its screenshot, and
\* the screenshot's temporary file is gone.
C14_NoTempFileLeft ==
    \A w \in Workers :
        (kind[w] \in Http /\ pc[w] = "done") =>
            /\ \A p \in DOMAIN disk : disk[p] # req[w]
            /\ kind[w] = "link" => ~exists(screenshot_path(req[w]))

(***************************************************************************)
(* POST /chat                                                              *)
(***************************************************************************)
\* The first non-empty of message, prompt, query.
FirstNonEmpty(data) ==
    IF data.message # "" THEN data.message
    ELSE IF data.prompt # "" THEN data.prompt
    ELSE data.query

\* With an input, the agent is called once with it, and the answer is 200
\* when call_agent_with_timeout reports success and 500 when it does not.
AgentCalledOnce ==
    /\ agent_calls = 1
    /\ user_input = FirstNonEmpty(chat_data)
    /\ chat_pc = "done" =>
          /\ result.success \in {"true", "false"}
          /\ chat_status = (IF result.success = "true" THEN 200 ELSE 500)
    /\ chat_pc # "done" => chat_status = 0

AgentNeverCalled(code) ==
    /\ chat_pc = "done"
    /\ chat_status = code
    /\ agent_calls = 0
    /\ agent = "idle"

\* C15 as stated: a missing or empty body, or a body none of whose three
\* fields is non-empty, is answered 400 without calling the agent; any other
\* body has the agent called once with the first non-empty field.
C15_ChatInput ==
    chat_pc # "idle" =>
        IF falsy(chat_data) \/ FirstNonEmpty(chat_data) = ""
        THEN AgentNeverCalled(400)
        ELSE AgentCalledOnce

\* C13: when the timeout expires while the agent call is still running,
\* call_agent_with_timeout returns its timed-out answer without waiting for
\* the agent call: its return is possible whatever the agent call does.
C13_ReturnsWithoutWaiting ==
    (chat_pc = "shutdown" /\ agent = "running") => ENABLED executor_shutdown

=============================================================================
